---- MODULE Spec2Model ----
(***************************************************************************)
(* Model of http_accept: the Accept header grammar functions, the          *)
(* MediaRange value type and the HeaderAccept list.                        *)
(*                                                                         *)
(* Python strings are sequences of one-character strings.  A Decimal is a  *)
(* record [val, err]: val counts units of 10^-FracDigits and err is the    *)
(* sign of (the number - val units); err is non-zero only for a Decimal    *)
(* built from a binary float that is not exactly that short decimal.       *)
(***************************************************************************)
EXTENDS Integers, Sequences, FiniteSets, TLC

\* ---------------------------------------------------------------- bounds
MaxLen == 2
FracDigits == 2

\* ------------------------------------------------------------- constants
MantissaBits == 53

RECURSIVE Pow10(_)
Pow10(n) == IF n = 0 THEN 1 ELSE 10 * Pow10(n - 1)

Unit == Pow10(FracDigits)

\* --------------------------------------------------------------- strings
S_q == <<"q">>
S_level == <<"l", "e", "v", "e", "l">>
S_version == <<"v", "e", "r", "s", "i", "o", "n">>
S_1 == <<"1">>
S_text_html == <<"t", "e", "x", "t", "/", "h", "t", "m", "l">>
S_app_xhtml == <<"a", "p", "p", "l", "i", "c", "a", "t", "i", "o", "n", "/", "x", "h", "t", "m", "l">>
S_app_xhtml_xml == S_app_xhtml \o <<"+", "x", "m", "l">>
S_app_xml == <<"a", "p", "p", "l", "i", "c", "a", "t", "i", "o", "n", "/", "x", "m", "l">>
S_text_any == <<"t", "e", "x", "t", "/", "*">>
S_app_any == <<"a", "p", "p", "l", "i", "c", "a", "t", "i", "o", "n", "/", "*">>
S_any == <<"*", "/", "*">>
S_text_plain == <<"t", "e", "x", "t", "/", "p", "l", "a", "i", "n">>

HTML_MIMETYPES == <<S_text_html, S_app_xhtml, S_app_xhtml_xml>>

DigitChars == <<"0", "1", "2", "3", "4", "5", "6", "7", "8", "9">>

IsDigit(c) == \E i \in 1..10 : DigitChars[i] = c

DigitVal(c) == (CHOOSE i \in 1..10 : DigitChars[i] = c) - 1

Whitespace == {" ", "\t", "\n", "\r"}

\* str.split(sep) for a one-character separator
RECURSIVE SplitFrom(_, _, _)
SplitFrom(s, sep, cur) ==
    IF s = <<>> THEN <<cur>>
    ELSE IF Head(s) = sep THEN <<cur>> \o SplitFrom(Tail(s), sep, <<>>)
    ELSE SplitFrom(Tail(s), sep, Append(cur, Head(s)))

Split(s, sep) == SplitFrom(s, sep, <<>>)

\* str.replace(c, '')
RECURSIVE Remove(_, _)
Remove(s, c) ==
    IF s = <<>> THEN <<>>
    ELSE IF Head(s) = c THEN Remove(Tail(s), c)
    ELSE <<Head(s)>> \o Remove(Tail(s), c)

RECURSIVE LStrip(_)
LStrip(s) == IF s # <<>> /\ Head(s) \in Whitespace THEN LStrip(Tail(s)) ELSE s

RECURSIVE RStrip(_)
RStrip(s) ==
    IF s # <<>> /\ s[Len(s)] \in Whitespace
    THEN RStrip(SubSeq(s, 1, Len(s) - 1)) ELSE s

\* str.strip()
Strip(s) == RStrip(LStrip(s))

\* sep.join(parts)
RECURSIVE Join(_, _)
Join(parts, sep) ==
    IF parts = <<>> THEN <<>>
    ELSE IF Len(parts) = 1 THEN parts[1]
    ELSE parts[1] \o <<sep>> \o Join(Tail(parts), sep)

RECURSIVE NatToStr(_)
NatToStr(n) ==
    IF n < 10 THEN <<DigitChars[n + 1]>>
    ELSE NatToStr(n \div 10) \o <<DigitChars[(n % 10) + 1]>>

\* lexicographic str < str, by position in the character table below
CharOrder == <<" ", "*", "+", "-", ".", "/">> \o DigitChars \o <<";", "=",
    "a", "b", "c", "d", "e", "f", "g", "h", "i", "j", "k", "l", "m",
    "n", "o", "p", "q", "r", "s", "t", "u", "v", "w", "x", "y", "z">>

CharRank(c) == CHOOSE i \in 1..Len(CharOrder) : CharOrder[i] = c

RECURSIVE StrLt(_, _)
StrLt(a, b) ==
    IF b = <<>> THEN FALSE
    ELSE IF a = <<>> THEN TRUE
    ELSE IF Head(a) = Head(b) THEN StrLt(Tail(a), Tail(b))
    ELSE CharRank(Head(a)) < CharRank(Head(b))

\* -------------------------------------------------------------- decimals
Dec(v, e) == [val |-> v, err |-> e]

NoDec == Dec(0 - 1, 0)

RECURSIVE BitLen(_)
BitLen(n) == IF n = 0 THEN 0 ELSE 1 + BitLen(n \div 2)

\* Binary expansion of r/Unit, MantissaBits significant bits, round to
\* nearest, ties to even: the sign of (nearest double - exact value).
RECURSIVE RoundSign(_, _, _)
RoundSign(r, n, last) ==
    IF r = 0 THEN 0
    ELSE IF n = MantissaBits
    THEN IF 2 * r > Unit THEN 1
         ELSE IF 2 * r < Unit THEN 0 - 1
         ELSE IF last = 1 THEN 1 ELSE 0 - 1
    ELSE LET b == IF 2 * r >= Unit THEN 1 ELSE 0
         IN  RoundSign(2 * r - b * Unit,
                       IF n > 0 \/ b = 1 THEN n + 1 ELSE 0, b)

FloatErr(v) == RoundSign(v % Unit, BitLen(v \div Unit), (v \div Unit) % 2)

\* Decimal(float): the exact value of the double written as the literal v
DecFromFloat(v) == Dec(v, FloatErr(v))

\* float(Decimal): the nearest double
DecToFloat(d) == Dec(d.val, FloatErr(d.val))

DecLt(a, b) == a.val < b.val \/ (a.val = b.val /\ a.err < b.err)

\* Decimal(str) for the unsigned forms digits[.digits] and .digits
IsDecimalText(s) ==
    LET t == Strip(s)
        parts == Split(t, ".")
    IN  /\ Len(parts) \in {1, 2}
        /\ \A i \in 1..Len(parts) : \A j \in 1..Len(parts[i]) : IsDigit(parts[i][j])
        /\ \E i \in 1..Len(parts) : parts[i] # <<>>

RECURSIVE DigitsVal(_)
DigitsVal(s) ==
    IF s = <<>> THEN 0
    ELSE 10 * DigitsVal(SubSeq(s, 1, Len(s) - 1)) + DigitVal(s[Len(s)])

DecFromStr(s) ==
    LET t == Strip(s)
        parts == Split(t, ".")
        frac == IF Len(parts) = 2 THEN parts[2] ELSE <<>>
    IN  Dec(DigitsVal(parts[1]) * Unit
              + DigitsVal(frac) * Pow10(FracDigits - Len(frac)), 0)

\* '%0.1f' % x: x is converted to a double, then rounded to one digit
FormatF1(d) ==
    LET f == DecToFloat(d)
        tenth == Unit \div 10
        q == f.val \div tenth
        r == f.val % tenth
        up == \/ 2 * r > tenth
              \/ 2 * r = tenth /\ (f.err = 1 \/ (f.err = 0 /\ q % 2 = 1))
        n == IF up THEN q + 1 ELSE q
    IN  NatToStr(n \div 10) \o <<".">> \o NatToStr(n % 10)

\* --------------------------------------------------------- python values
\* t is the type: "str", "float", "Decimal" or "NoneType"
PyStr(s) == [t |-> "str", s |-> s, d |-> NoDec]

PyFloat(v) == [t |-> "float", s |-> <<>>, d |-> DecFromFloat(v)]

PyDec(d) == [t |-> "Decimal", s |-> <<>>, d |-> d]

PyNone == [t |-> "NoneType", s |-> <<>>, d |-> NoDec]

IsNumber(x) == x.t \in {"float", "Decimal"}

\* x == y between str, float, Decimal and None
PyEq(x, y) ==
    \/ x.t = "str" /\ y.t = "str" /\ x.s = y.s
    \/ IsNumber(x) /\ IsNumber(y) /\ x.d = y.d
    \/ x.t = "NoneType" /\ y.t = "NoneType"

Ok(v) == [exc |-> "none", ret |-> v]

Raise(e) == [exc |-> e, ret |-> PyNone]

\* decimal.Decimal(x)
DecimalOf(x) ==
    IF x.t = "str"
    THEN IF IsDecimalText(x.s) THEN Ok(DecFromStr(x.s)) ELSE Raise("InvalidOperation")
    ELSE IF IsNumber(x) THEN Ok(x.d)
    ELSE Raise("TypeError")

\* a dict is a function from its keys (strings) to python values
EmptyDict == [k \in {} |-> PyNone]

DictEq(a, b) ==
    /\ DOMAIN a = DOMAIN b
    /\ \A k \in DOMAIN a : PyEq(a[k], b[k])

\* dict(pairs): a later pair replaces an earlier one with the same key
DictFromPairs(pairs) ==
    [k \in {pairs[i][1] : i \in 1..Len(pairs)} |->
        LET last == CHOOSE i \in 1..Len(pairs) :
                        /\ pairs[i][1] = k
                        /\ \A j \in (i + 1)..Len(pairs) : pairs[j][1] # k
        IN  PyStr(pairs[last][2])]

\* sorted(d.items()): the keys in increasing order
RECURSIVE SortedKeys(_)
SortedKeys(ks) ==
    IF ks = {} THEN <<>>
    ELSE LET m == CHOOSE k \in ks : \A o \in ks \ {k} : StrLt(k, o)
         IN  <<m>> \o SortedKeys(ks \ {m})

\* ------------------------------------------------------- grammar functions
\* the header split first, each piece stripped of the whitespace around it
split_accept_header_Strip(accept_header) ==
    LET pieces == Split(accept_header, ",")
    IN  [i \in 1..Len(pieces) |-> Strip(pieces[i])]

\* the empty pieces left out, as str.split() without a separator does
split_accept_header_NonEmpty(accept_header) ==
    SelectSeq(Split(Remove(accept_header, " "), ","), LAMBDA p : p # <<>>)

\* the values the generator of split_accept_header goes through
split_accept_header(accept_header) == Split(Remove(accept_header, " "), ",")

\* the segments that are not key=value left out instead of refused
parse_accept_value_SkipBad(accept_value) ==
    IF accept_value.t = "NoneType" THEN Raise("TypeError")
    ELSE LET values == Split(accept_value.s, ";")
             mimetype == Strip(values[1])
             rest == Tail(values)
             parts == [i \in 1..Len(rest) |-> Split(Remove(rest[i], " "), "=")]
         IN  Ok([mimetype |-> mimetype,
                 options |-> DictFromPairs(
                                SelectSeq(parts, LAMBDA part : Len(part) = 2))])

parse_accept_value(accept_value) ==
    IF accept_value.t = "NoneType" THEN Raise("TypeError")
    ELSE LET values == Split(accept_value.s, ";")
             mimetype == Strip(values[1])
             rest == Tail(values)
             parts == [i \in 1..Len(rest) |-> Split(Remove(rest[i], " "), "=")]
         IN  IF \E i \in 1..Len(parts) : Len(parts[i]) # 2
             THEN Raise("ValueError")
             ELSE Ok([mimetype |-> mimetype, options |-> DictFromPairs(parts)])

\* ----------------------------------------------------------- MediaRange
\* q taken through float() before it is made a Decimal
MediaRange__init__ViaFloat(mimetype, options) ==
    LET q == IF S_q \in DOMAIN options
             THEN DecimalOf(options[S_q]) ELSE DecimalOf(PyFloat(Unit))
    IN  IF q.exc # "none" THEN Raise(q.exc)
        ELSE Ok([mimetype |-> mimetype,
                 quality |-> DecToFloat(q.ret),
                 raw_options |-> options,
                 options |-> [k \in DOMAIN options \ {S_q} |-> options[k]]])

MediaRange__init__(mimetype, options) ==
    LET q == IF S_q \in DOMAIN options
             THEN DecimalOf(options[S_q]) ELSE DecimalOf(PyFloat(Unit))
    IN  IF q.exc # "none" THEN Raise(q.exc)
        ELSE Ok([mimetype |-> mimetype,
                 quality |-> q.ret,
                 raw_options |-> options,
                 options |-> [k \in DOMAIN options \ {S_q} |-> options[k]]])

\* equality as the earlier revisions had it: mimetype and quality only
MediaRange__eq__NoOptions(self, other) ==
    /\ self.mimetype = other.mimetype
    /\ self.quality = other.quality

MediaRange__eq__(self, other) ==
    /\ self.mimetype = other.mimetype
    /\ self.quality = other.quality
    /\ DictEq(self.options, other.options)

MediaRange__lt__(self, other) == DecLt(self.quality, other.quality)

\* to_http with q written after the options
MediaRange_to_http_QLast(self, explicit_quality) ==
    LET base == IF explicit_quality \/ S_q \in DOMAIN self.raw_options
                THEN << <<"q", "=">> \o FormatF1(self.quality) >>
                ELSE <<>>
        keys == SortedKeys(DOMAIN self.options)
        options == [i \in 1..Len(keys) |->
                       keys[i] \o <<"=">> \o self.options[keys[i]].s]
    IN  Ok(Join(<<self.mimetype>> \o options \o base, ";"))

\* to_http that writes q only when explicit_quality is asked for
MediaRange_to_http_OnlyExplicit(self, explicit_quality) ==
    LET base == IF explicit_quality
                THEN << <<"q", "=">> \o FormatF1(self.quality) >>
                ELSE <<>>
        keys == SortedKeys(DOMAIN self.options)
        options == [i \in 1..Len(keys) |->
                       keys[i] \o <<"=">> \o self.options[keys[i]].s]
    IN  Ok(Join(<<self.mimetype>> \o base \o options, ";"))

MediaRange_to_http(self, explicit_quality) ==
    LET base == IF explicit_quality \/ S_q \in DOMAIN self.raw_options
                THEN << <<"q", "=">> \o FormatF1(self.quality) >>
                ELSE <<>>
        keys == SortedKeys(DOMAIN self.options)
        options == [i \in 1..Len(keys) |->
                       keys[i] \o <<"=">> \o self.options[keys[i]].s]
    IN  IF \E k \in DOMAIN self.options : self.options[k].t # "str"
        THEN Raise("TypeError")
        ELSE Ok(Join(<<self.mimetype>> \o base \o options, ";"))

\* Decimal != value: a number is compared by value, anything else differs
DecimalNe(d, value) == ~(IsNumber(value) /\ value.d = d)

\* set_options that files q with the other options too
MediaRange_set_options_QInOptions(self, key, value) ==
    IF key = S_q
    THEN IF DecimalNe(self.quality, value)
         THEN LET fixed == DecimalOf(value)
              IN  IF fixed.exc # "none" THEN [exc |-> fixed.exc, self |-> self]
                  ELSE [exc |-> "none",
                        self |-> [self EXCEPT
                           !.quality = fixed.ret,
                           !.raw_options = (S_q :> PyDec(fixed.ret)) @@ @,
                           !.options = (S_q :> PyDec(fixed.ret)) @@ @]]
         ELSE [exc |-> "none", self |-> self]
    ELSE [exc |-> "none",
          self |-> [self EXCEPT !.raw_options = (key :> value) @@ @,
                                !.options = (key :> value) @@ @]]

\* range.set_options(key, value)
MediaRange_set_options(self, key, value) ==
    IF key = S_q
    THEN IF DecimalNe(self.quality, value)
         THEN LET fixed == DecimalOf(value)
              IN  IF fixed.exc # "none" THEN [exc |-> fixed.exc, self |-> self]
                  ELSE [exc |-> "none",
                        self |-> [self EXCEPT
                           !.quality = fixed.ret,
                           !.raw_options = (S_q :> PyDec(fixed.ret)) @@ @]]
         ELSE [exc |-> "none", self |-> self]
    ELSE [exc |-> "none",
          self |-> [self EXCEPT !.raw_options = (key :> value) @@ @,
                                !.options = (key :> value) @@ @]]

\* ---------------------------------------------------------- HeaderAccept
\* max(item.quality for item in items), items not empty
RECURSIVE MaxQuality(_, _)
MaxQuality(items, best) ==
    IF items = <<>> THEN best
    ELSE MaxQuality(Tail(items),
                    IF DecLt(best, Head(items).quality)
                    THEN Head(items).quality ELSE best)

\* max() given a default for the empty batch
HeaderAccept__init__Default(items) ==
    IF items = <<>> THEN Ok([members |-> <<>>, max_quality |-> Dec(0, 0)])
    ELSE Ok([members |-> items,
             max_quality |-> MaxQuality(Tail(items), Head(items).quality)])

HeaderAccept__init__(items) ==
    IF items = <<>> THEN Raise("ValueError")
    ELSE Ok([members |-> items,
             max_quality |-> MaxQuality(Tail(items), Head(items).quality)])

\* The operand of `in`: a MediaRange, a tuple or list of python values, or
\* a str, float or None.
NoMediaRange == [mimetype |-> <<>>, quality |-> NoDec,
                 raw_options |-> EmptyDict, options |-> EmptyDict]

ValMR(m) == [kind |-> "MediaRange", mr |-> m, items |-> <<>>, x |-> PyNone]

ValSeq(items) == [kind |-> "sequence", mr |-> NoMediaRange, items |-> items, x |-> PyNone]

ValScalar(x) == [kind |-> "scalar", mr |-> NoMediaRange, items |-> <<>>, x |-> x]

\* mimetype, quality = value
Unpack2(value) ==
    IF value.kind = "sequence"
    THEN IF Len(value.items) = 2 THEN Ok(value.items) ELSE Raise("ValueError")
    ELSE IF value.x.t = "str"
    THEN IF Len(value.x.s) = 2
         THEN Ok(<<PyStr(<<value.x.s[1]>>), PyStr(<<value.x.s[2]>>)>>)
         ELSE Raise("ValueError")
    ELSE Raise("TypeError")

HeaderAccept__contains__(self, value) ==
    IF value.kind = "MediaRange"
    THEN Ok(\E i \in 1..Len(self.members) :
                MediaRange__eq__(value.mr, self.members[i]))
    ELSE LET pair == Unpack2(value)
             by_mimetype ==
                 Ok(\E i \in 1..Len(self.members) :
                        /\ value.kind = "scalar"
                        /\ PyEq(value.x, PyStr(self.members[i].mimetype)))
         IN  IF pair.exc = "ValueError" THEN by_mimetype
             ELSE IF pair.exc # "none" THEN Raise(pair.exc)
             ELSE LET d_quality == DecimalOf(pair.ret[2])
                  IN  IF d_quality.exc # "none" THEN Raise(d_quality.exc)
                      ELSE Ok(\E i \in 1..Len(self.members) :
                                /\ PyEq(pair.ret[1], PyStr(self.members[i].mimetype))
                                /\ d_quality.ret = self.members[i].quality)

\* append that forgets max_quality
HeaderAccept_append_StaleMax(self, x) ==
    IF "quality" \notin x.attrs \/ "mimetype" \notin x.attrs
    THEN [exc |-> "TypeError", self |-> self]
    ELSE [exc |-> "none",
          self |-> [members |-> Append(self.members, x.mr),
                    max_quality |-> self.max_quality]]

\* the value appended before it is checked
HeaderAccept_append_Unchecked(self, x) ==
    IF "quality" \notin x.attrs \/ "mimetype" \notin x.attrs
    THEN [exc |-> "TypeError",
          self |-> [members |-> Append(self.members, x.mr),
                    max_quality |-> self.max_quality]]
    ELSE [exc |-> "none",
          self |-> [members |-> Append(self.members, x.mr),
                    max_quality |-> IF DecLt(self.max_quality, x.mr.quality)
                                    THEN x.mr.quality ELSE self.max_quality]]

\* The operand of append: an object with the attributes attrs; with both
\* mimetype and quality it is the MediaRange mr.
HeaderAccept_append(self, x) ==
    IF "quality" \notin x.attrs \/ "mimetype" \notin x.attrs
    THEN [exc |-> "TypeError", self |-> self]
    ELSE [exc |-> "none",
          self |-> [members |-> Append(self.members, x.mr),
                    max_quality |-> IF DecLt(self.max_quality, x.mr.quality)
                                    THEN x.mr.quality ELSE self.max_quality]]

RECURSIVE Reverse(_)
Reverse(s) == IF s = <<>> THEN <<>> ELSE Append(Reverse(Tail(s)), Head(s))

\* list.sort: a stable sort that only asks a < b; an item goes before the
\* first sorted item it is less than
RECURSIVE InsertSorted(_, _)
InsertSorted(sorted, x) ==
    IF sorted = <<>> THEN <<x>>
    ELSE IF MediaRange__lt__(x, Head(sorted)) THEN <<x>> \o sorted
    ELSE <<Head(sorted)>> \o InsertSorted(Tail(sorted), x)

RECURSIVE StableSort(_)
StableSort(s) ==
    IF s = <<>> THEN <<>>
    ELSE InsertSorted(StableSort(SubSeq(s, 1, Len(s) - 1)), s[Len(s)])

\* sorted ascending and then reversed: equal items change places
Sorted_ThenReversed(items, reverse) ==
    IF reverse THEN Reverse(StableSort(items)) ELSE StableSort(items)

\* sorted(items, reverse=...): with reverse the list is reversed, sorted and
\* reversed again, which keeps equal items in their original order
Sorted(items, reverse) ==
    IF reverse THEN Reverse(StableSort(Reverse(items))) ELSE StableSort(items)

HeaderAccept_to_http(self) ==
    LET order == Sorted(self.members, TRUE)
        parts == [i \in 1..Len(order) |-> MediaRange_to_http(order[i], FALSE)]
    IN  IF \E i \in 1..Len(parts) : parts[i].exc # "none"
        THEN Raise("TypeError")
        ELSE Ok(Join([i \in 1..Len(parts) |-> parts[i].ret], ","))

\* a selection that collects the items in front of the result
RECURSIVE Select_Prepend(_, _)
Select_Prepend(items, q) ==
    IF items = <<>> THEN <<>>
    ELSE IF Head(items).quality = q
    THEN Append(Select_Prepend(Tail(items), q), Head(items))
    ELSE Select_Prepend(Tail(items), q)

RECURSIVE Select(_, _)
Select(items, q) ==
    IF items = <<>> THEN <<>>
    ELSE IF Head(items).quality = q THEN <<Head(items)>> \o Select(Tail(items), q)
    ELSE Select(Tail(items), q)

\* the items below max_quality selected instead of those at it
HeaderAccept_get_max_quality_accept_BelowMax(self) ==
    HeaderAccept__init__(
        SelectSeq(self.members, LAMBDA item : DecLt(item.quality, self.max_quality)))

HeaderAccept_get_max_quality_accept(self) ==
    HeaderAccept__init__(Select(self.members, self.max_quality))

\* is_html_accepted that looks for the mimetype at any quality
HeaderAccept_is_html_accepted_AnyTier(self, strict) ==
    LET mimetypes_compare ==
            IF ~strict THEN HTML_MIMETYPES \o <<S_text_any, S_app_any, S_any>>
            ELSE HTML_MIMETYPES
    IN  Ok(\E i \in 1..Len(mimetypes_compare) :
             HeaderAccept__contains__(self,
                 ValScalar(PyStr(mimetypes_compare[i]))).ret)

HeaderAccept_is_html_accepted(self, strict) ==
    LET mimetypes_compare ==
            IF ~strict THEN HTML_MIMETYPES \o <<S_text_any, S_app_any, S_any>>
            ELSE HTML_MIMETYPES
    IN  Ok(\E i \in 1..Len(mimetypes_compare) :
             LET accept_value ==
                     MediaRange__init__(mimetypes_compare[i],
                                        (S_q :> PyDec(self.max_quality)))
             IN  HeaderAccept__contains__(self, ValMR(accept_value.ret)).ret)

\* append with its two statements in the other order: the item first
HeaderAccept_append_step_AddFirst(self, x, step) ==
    IF step = "raise"
    THEN [members |-> Append(self.members, x),
          max_quality |-> self.max_quality]
    ELSE [members |-> self.members,
          max_quality |-> IF DecLt(self.max_quality, x.quality)
                          THEN x.quality ELSE self.max_quality]

\* The two statements of append behind its check, one at a time:
\* "raise" is `if self.max_quality < x.quality: self.max_quality = x.quality`,
\* "add" is `super(HeaderAccept, self).append(x)`.
HeaderAccept_append_step(self, x, step) ==
    IF step = "raise"
    THEN [members |-> self.members,
          max_quality |-> IF DecLt(self.max_quality, x.quality)
                          THEN x.quality ELSE self.max_quality]
    ELSE [members |-> Append(self.members, x),
          max_quality |-> self.max_quality]

\* list.extend(items), inherited: the items go to the end, max_quality is
\* not looked at
HeaderAccept_extend(self, items) ==
    [members |-> self.members \o items, max_quality |-> self.max_quality]

\* list.insert(index, x), inherited, for 0 <= index <= len(self)
HeaderAccept_insert(self, index, x) ==
    [members |-> SubSeq(self.members, 1, index) \o <<x>>
                   \o SubSeq(self.members, index + 1, Len(self.members)),
     max_quality |-> self.max_quality]

\* accepts[i].set_options(key, value): the item changes, the list that
\* holds it is not told
HeaderAccept_item_set_options(self, i, key, value) ==
    LET r == MediaRange_set_options(self.members[i], key, value)
    IN  [exc |-> r.exc,
         self |-> [members |-> [self.members EXCEPT ![i] = r.self],
                   max_quality |-> self.max_quality]]

QueryNames ==
    {"__contains__", "to_http", "get_max_quality_accept", "is_html_accepted"}

\* to_http sorting the receiver itself, as self.sort(reverse=True) would
ReceiverAfter_SortedInPlace(self, name) ==
    IF name = "to_http"
    THEN [members |-> Sorted(self.members, TRUE),
          max_quality |-> self.max_quality]
    ELSE self

\* The receiver after the query called name. __contains__ and
\* is_html_accepted only read the items; to_http reads them through
\* sorted(self, reverse=True), which builds a new list;
\* get_max_quality_accept builds a new HeaderAccept from a generator over
\* self. None of them assigns to self or calls a method that changes it.
ReceiverAfter(self, name) == self

\* ------------------------------------------------ MediaRange comparisons
\* The right operand of a comparison: an object with the attributes attrs,
\* their values held in mr; x is the value of a plain str, number or None.
Operand(attrs, m, x) == [attrs |-> attrs, mr |-> m, x |-> x]

AsOperand(m) == Operand({"mimetype", "quality", "options"}, m, PyNone)

Plain(x) == Operand({}, NoMediaRange, x)

\* hasattr(other, name) for every name
HasAttrs(other, names) == names \subseteq other.attrs

\* != as the earlier revisions had it: mimetype and quality only
MediaRange__ne__NoOptions(self, other) ==
    IF ~HasAttrs(other, {"mimetype", "quality", "options"}) THEN Ok(TRUE)
    ELSE Ok(\/ self.mimetype # other.mr.mimetype
            \/ self.quality # other.mr.quality)

\* self == other, other any operand
MediaRange_eq(self, other) ==
    IF ~HasAttrs(other, {"mimetype", "quality", "options"}) THEN Ok(FALSE)
    ELSE Ok(MediaRange__eq__(self, other.mr))

MediaRange__ne__(self, other) ==
    IF ~HasAttrs(other, {"mimetype", "quality", "options"}) THEN Ok(TRUE)
    ELSE Ok(\/ self.mimetype # other.mr.mimetype
            \/ self.quality # other.mr.quality
            \/ ~DictEq(self.options, other.mr.options))

\* Decimal <= Decimal
DecLe(a, b) == DecLt(a, b) \/ a = b

\* self < other without the check of other: the attribute lookup fails
MediaRange_lt_Unchecked(self, other) ==
    IF ~HasAttrs(other, {"quality"}) THEN Raise("AttributeError")
    ELSE Ok(MediaRange__lt__(self, other.mr))

\* self < other, other any operand
MediaRange_lt(self, other) ==
    IF ~HasAttrs(other, {"quality"}) THEN Raise("TypeError")
    ELSE Ok(MediaRange__lt__(self, other.mr))

\* <= computed as <
MediaRange__le__Strict(self, other) ==
    IF ~HasAttrs(other, {"quality"}) THEN Raise("TypeError")
    ELSE Ok(DecLt(self.quality, other.mr.quality))

MediaRange__le__(self, other) ==
    IF ~HasAttrs(other, {"quality"}) THEN Raise("TypeError")
    ELSE Ok(DecLe(self.quality, other.mr.quality))

MediaRange__gt__(self, other) ==
    IF ~HasAttrs(other, {"quality"}) THEN Raise("TypeError")
    ELSE Ok(DecLt(other.mr.quality, self.quality))

MediaRange__ge__(self, other) ==
    IF ~HasAttrs(other, {"quality"}) THEN Raise("TypeError")
    ELSE Ok(DecLe(other.mr.quality, self.quality))

OperatorNames == {"==", "!=", "<", "<=", ">", ">="}

\* self <name> other
Compare(name, self, other) ==
    CASE name = "==" -> MediaRange_eq(self, other)
      [] name = "!=" -> MediaRange__ne__(self, other)
      [] name = "<" -> MediaRange_lt(self, other)
      [] name = "<=" -> MediaRange__le__(self, other)
      [] name = ">" -> MediaRange__gt__(self, other)
      [] name = ">=" -> MediaRange__ge__(self, other)

\* an int operand
PyInt(n) == [t |-> "int", s |-> <<>>, d |-> Dec(n * Unit, 0)]

\* a MediaRange among the operands (the other objects used here lack
\* options, and have no comparison methods of their own)
IsMediaRange(x) == x.attrs = {"mimetype", "quality", "options"}

\* x < y as Python evaluates it: x.__lt__(y) when x is a MediaRange, else the
\* reflected y.__gt__(x) when y is one, else the comparison of two numbers
RichLt(x, y) ==
    IF IsMediaRange(x) THEN MediaRange_lt(x.mr, y)
    ELSE IF IsMediaRange(y) THEN MediaRange__gt__(y.mr, x)
    ELSE IF x.attrs = {} /\ y.attrs = {}
            /\ x.x.t \in {"int", "float"} /\ y.x.t \in {"int", "float"}
         THEN Ok(DecLt(x.x.d, y.x.d))
    ELSE Raise("TypeError")

\* list.sort over any operands: the first comparison that raises ends it
RECURSIVE InsertOperand(_, _)
InsertOperand(done, x) ==
    IF done = <<>> THEN Ok(<<x>>)
    ELSE LET c == RichLt(x, Head(done))
         IN  IF c.exc # "none" THEN c
             ELSE IF c.ret THEN Ok(<<x>> \o done)
             ELSE LET r == InsertOperand(Tail(done), x)
                  IN  IF r.exc # "none" THEN r
                      ELSE Ok(<<Head(done)>> \o r.ret)

RECURSIVE SortOperands(_)
SortOperands(s) ==
    IF s = <<>> THEN Ok(<<>>)
    ELSE LET r == SortOperands(SubSeq(s, 1, Len(s) - 1))
         IN  IF r.exc # "none" THEN r ELSE InsertOperand(r.ret, s[Len(s)])

\* sorted ascending and then reversed: equal items change places
PySorted_ThenReversed(list, rev) ==
    LET r == SortOperands(list)
    IN  IF r.exc # "none" THEN r
        ELSE IF rev THEN Ok(Reverse(r.ret)) ELSE r

\* sorted(list, reverse=rev)
PySorted(list, rev) ==
    IF rev
    THEN LET r == SortOperands(Reverse(list))
         IN  IF r.exc # "none" THEN r ELSE Ok(Reverse(r.ret))
    ELSE SortOperands(list)

\* ------------------------------------------------------------- the inputs
Tenths(n) == n * (Unit \div 10)

T_0_8 == <<"0", ".", "8">>
T_0_5 == <<"0", ".", "5">>
T_1_0 == <<"1", ".", "0">>

Q(text) == (S_q :> PyStr(text))

Level1 == (S_level :> PyStr(S_1))

\* MediaRange(mimetype, **options) as the callers and the tests build them
CtorArgs ==
    { [mimetype |-> S_text_html, options |-> Q(T_0_8)],
      [mimetype |-> S_text_html, options |-> Q(T_0_5)],
      [mimetype |-> S_text_html, options |-> Q(T_0_8) @@ Level1],
      [mimetype |-> S_text_any, options |-> Q(T_0_8)],
      [mimetype |-> S_app_xml, options |-> EmptyDict],
      [mimetype |-> S_any, options |-> Q(T_0_5)] }

MediaRanges == { MediaRange__init__(a.mimetype, a.options).ret : a \in CtorArgs }

Batches == UNION { [1..n -> MediaRanges] : n \in 0..MaxLen }

QualityForms ==
    { PyStr(T_0_8), PyFloat(Tenths(8)), PyDec(Dec(Tenths(8), 0)),
      PyStr(T_0_5), PyFloat(Tenths(5)), PyDec(Dec(Tenths(5), 0)),
      PyStr(T_1_0), PyStr(S_1) }

Strings == { S_text_html, S_app_xml, S_text_plain, S_any, <<"a", "b">>,
             <<"*", "1">>, <<"a">>, <<>> }

ContainsValues ==
    { ValMR(m) : m \in MediaRanges }
    \cup { ValSeq(<<PyStr(m), q>>) : m \in {S_text_html, S_app_xml}, q \in QualityForms }
    \cup { ValSeq(<<PyStr(S_text_html), PyStr(T_0_8), PyStr(S_1)>>),
           ValSeq(<<PyStr(S_text_html)>>) }
    \cup { ValScalar(PyStr(s)) : s \in Strings }
    \cup { ValScalar(PyFloat(Tenths(8))), ValScalar(PyNone) }

Object(attrs) == [attrs |-> attrs, mr |-> NoMediaRange]

AppendValues ==
    { [attrs |-> {"mimetype", "quality"}, mr |-> m] : m \in MediaRanges }
    \cup { Object({}), Object({"mimetype"}), Object({"quality"}) }

\* ------------------------------------------------------------- the state
\* constructed, members, max_quality: the HeaderAccept object
\* op, arg, exc, ret: the last call, its operand, what it raised or returned
VARIABLES constructed, members, max_quality, op, arg, exc, ret

\* One MediaRange on its way from header text to header text and back:
\* stage, the token parsed, the options given to the constructor, the
\* MediaRange, the explicit_quality flag, its to_http() and the second parse
VARIABLES stage, token, given, range, explicit, http, again

\* calls: the number of set_options calls made on the MediaRange
VARIABLES calls

\* Two operands and the results of the comparison operators applied to
\* them so far; a list, the direction asked of sorted() and its result
VARIABLES lhs, rhs, results, items, reverse, sorted

\* split_accept_header: the header, whether the generator exists, the
\* pieces it has still to yield, the pieces yielded, whether it has ended
VARIABLES header, started, pending, yielded, ended

\* A HeaderAccept shared by a thread inside append and a thread inside
\* get_max_quality_accept: where the append is and the item it appends;
\* where the reader is, the index of the item it looks at next, the items it
\* has picked, and whether the append moved while it was reading
VARIABLES appending, item, reading, pos, picked, overlapped

listVars == <<constructed, members, max_quality, op, arg, exc, ret>>

rangeVars == <<stage, token, given, range, explicit, http, again>>

orderVars == <<lhs, rhs, results, items, reverse, sorted>>

splitVars == <<header, started, pending, yielded, ended>>

sharedVars == <<appending, item, reading, pos, picked, overlapped>>

otherVars == <<calls, orderVars, splitVars, sharedVars>>

vars == <<listVars, rangeVars, otherVars>>

self == [members |-> members, max_quality |-> max_quality]

RangeIdle ==
    /\ stage = "start"
    /\ token = <<>>
    /\ given = EmptyDict
    /\ range = NoMediaRange
    /\ explicit = FALSE
    /\ http = <<>>
    /\ again = NoMediaRange

NoResult == [exc |-> "unset", ret |-> PyNone]

OrderIdle ==
    /\ lhs = NoMediaRange
    /\ rhs = PyNone
    /\ results = EmptyDict
    /\ items = <<>>
    /\ reverse = FALSE
    /\ sorted = NoResult

SplitIdle ==
    /\ header = <<>>
    /\ started = FALSE
    /\ pending = <<>>
    /\ yielded = <<>>
    /\ ended = FALSE

SharedIdle ==
    /\ appending = "idle"
    /\ item = NoMediaRange
    /\ reading = "idle"
    /\ pos = 0
    /\ picked = <<>>
    /\ overlapped = FALSE

OtherIdle == calls = 0 /\ OrderIdle /\ SplitIdle /\ SharedIdle

ListIdle ==
    /\ constructed = FALSE
    /\ members = <<>>
    /\ max_quality = NoDec
    /\ op = "none"
    /\ arg = PyNone
    /\ exc = "none"
    /\ ret = PyNone

Init ==
    /\ RangeIdle
    /\ OtherIdle
    /\ constructed = FALSE
    /\ members = <<>>
    /\ max_quality = NoDec
    /\ op = "none"
    /\ arg = PyNone
    /\ exc = "none"
    /\ ret = PyNone

\* HeaderAccept(batch)
Construct ==
    /\ ~constructed
    /\ \E batch \in Batches :
         LET r == HeaderAccept__init__(batch)
         IN  /\ op' = "__init__"
             /\ arg' = batch
             /\ exc' = r.exc
             /\ ret' = PyNone
             /\ UNCHANGED <<rangeVars, otherVars>>
             /\ IF r.exc = "none"
                THEN /\ constructed' = TRUE
                     /\ members' = r.ret.members
                     /\ max_quality' = r.ret.max_quality
                ELSE UNCHANGED <<constructed, members, max_quality>>

\* accepts.append(x)
DoAppend ==
    /\ constructed
    /\ Len(members) < MaxLen
    /\ \E x \in AppendValues :
         LET r == HeaderAccept_append(self, x)
         IN  /\ op' = "append"
             /\ arg' = x
             /\ exc' = r.exc
             /\ ret' = PyNone
             /\ members' = r.self.members
             /\ max_quality' = r.self.max_quality
             /\ UNCHANGED <<constructed, rangeVars, otherVars>>

\* value in accepts
DoContains ==
    /\ constructed
    /\ \E value \in ContainsValues :
         LET r == HeaderAccept__contains__(self, value)
         IN  /\ op' = "__contains__"
             /\ arg' = value
             /\ exc' = r.exc
             /\ ret' = r.ret
             /\ members' = ReceiverAfter(self, "__contains__").members
             /\ max_quality' = ReceiverAfter(self, "__contains__").max_quality
             /\ UNCHANGED <<constructed, rangeVars, otherVars>>

\* accepts.to_http()
DoToHttp ==
    /\ constructed
    /\ LET r == HeaderAccept_to_http(self)
       IN  /\ op' = "to_http"
           /\ arg' = PyNone
           /\ exc' = r.exc
           /\ ret' = r.ret
           /\ members' = ReceiverAfter(self, "to_http").members
           /\ max_quality' = ReceiverAfter(self, "to_http").max_quality
           /\ UNCHANGED <<constructed, rangeVars, otherVars>>

\* accepts.get_max_quality_accept()
DoGetMaxQualityAccept ==
    /\ constructed
    /\ LET r == HeaderAccept_get_max_quality_accept(self)
       IN  /\ op' = "get_max_quality_accept"
           /\ arg' = PyNone
           /\ exc' = r.exc
           /\ ret' = r.ret
           /\ members' = ReceiverAfter(self, "get_max_quality_accept").members
           /\ max_quality' = ReceiverAfter(self, "get_max_quality_accept").max_quality
           /\ UNCHANGED <<constructed, rangeVars, otherVars>>

\* accepts.get_max_quality_accept().get_max_quality_accept(): the second
\* call, on the collection the first one returned
DoGetMaxQualityAcceptAgain ==
    /\ constructed
    /\ op = "get_max_quality_accept"
    /\ exc = "none"
    /\ LET r == HeaderAccept_get_max_quality_accept(ret)
       IN  /\ op' = "get_max_quality_accept twice"
           /\ arg' = ret
           /\ exc' = r.exc
           /\ ret' = r.ret
           /\ UNCHANGED <<constructed, members, max_quality, rangeVars, otherVars>>

\* accepts.is_html_accepted(strict)
DoIsHtmlAccepted ==
    /\ constructed
    /\ \E strict \in BOOLEAN :
         LET r == HeaderAccept_is_html_accepted(self, strict)
         IN  /\ op' = "is_html_accepted"
             /\ arg' = strict
             /\ exc' = r.exc
             /\ ret' = r.ret
             /\ members' = ReceiverAfter(self, "is_html_accepted").members
             /\ max_quality' = ReceiverAfter(self, "is_html_accepted").max_quality
             /\ UNCHANGED <<constructed, rangeVars, otherVars>>

Next ==
    \/ Construct
    \/ DoAppend
    \/ DoContains
    \/ DoToHttp
    \/ DoGetMaxQualityAccept
    \/ DoGetMaxQualityAcceptAgain
    \/ DoIsHtmlAccepted

Spec == Init /\ [][Next]_vars

\* ------------------------------------------------ one MediaRange, by text
T_0_85 == <<"0", ".", "8", "5">>
T_0_25 == <<"0", ".", "2", "5">>
T_0_75 == <<"0", ".", "7", "5">>
T_0 == <<"0">>
T_abc == <<"a", "b", "c">>

QualityTexts == { T_0_8, T_1_0, S_1, T_0_85, T_0_25, T_0_75, T_0_5, T_0, T_abc }

Seg(key, value) == key \o <<"=">> \o value

\* the parameter segments that come before q in a token
OtherSegments ==
    { <<>>, <<Seg(S_level, S_1)>>, <<Seg(S_version, T_1_0), Seg(S_level, S_1)>> }

Tokens ==
    { Join(<<m>> \o o, ";") : m \in {S_text_html, S_any}, o \in OtherSegments }
    \cup { Join(<<m>> \o o \o <<Seg(S_q, q)>>, ";") :
             m \in {S_text_html, S_any}, o \in OtherSegments, q \in QualityTexts }
    \cup { S_text_html \o <<" ", ";", " ">> \o Seg(S_q, T_0_8) }

\* MediaRange(mimetype, **options) with a q that is not text
DirectArgs ==
    { [mimetype |-> S_text_html, options |-> (S_q :> PyDec(Dec(Tenths(8), 0)))],
      [mimetype |-> S_text_html, options |-> (S_q :> PyFloat(Unit)) @@ Level1] }

\* MediaRange(info['mimetype'], **info['options']) on parse_accept_value(text)
ParseMediaRange(text) ==
    LET info == parse_accept_value(PyStr(text))
    IN  IF info.exc # "none" THEN Raise(info.exc)
        ELSE MediaRange__init__(info.ret.mimetype, info.ret.options)

InitRange ==
    /\ RangeIdle
    /\ OtherIdle
    /\ constructed = FALSE
    /\ members = <<>>
    /\ max_quality = NoDec
    /\ op = "none"
    /\ arg = PyNone
    /\ exc = "none"
    /\ ret = PyNone

ParseToken ==
    /\ stage = "start"
    /\ \E t \in Tokens :
         LET info == parse_accept_value(PyStr(t))
             m == ParseMediaRange(t)
         IN  /\ token' = t
             /\ exc' = m.exc
             /\ IF m.exc = "none"
                THEN /\ stage' = "built"
                     /\ given' = info.ret.options
                     /\ range' = m.ret
                ELSE /\ stage' = "failed"
                     /\ given' = IF info.exc = "none"
                                 THEN info.ret.options ELSE given
                     /\ UNCHANGED range
    /\ UNCHANGED <<explicit, http, again>>
    /\ UNCHANGED <<constructed, members, max_quality, op, arg, ret, otherVars>>

BuildRange ==
    /\ stage = "start"
    /\ \E a \in DirectArgs :
         LET m == MediaRange__init__(a.mimetype, a.options)
         IN  /\ exc' = m.exc
             /\ stage' = "built"
             /\ given' = a.options
             /\ range' = m.ret
    /\ UNCHANGED <<token, explicit, http, again>>
    /\ UNCHANGED <<constructed, members, max_quality, op, arg, ret, otherVars>>

\* range.to_http(explicit_quality)
Serialize ==
    /\ stage = "built"
    /\ \E e \in BOOLEAN :
         LET r == MediaRange_to_http(range, e)
         IN  /\ explicit' = e
             /\ exc' = r.exc
             /\ stage' = IF r.exc = "none" THEN "serialized" ELSE "failed"
             /\ http' = IF r.exc = "none" THEN r.ret ELSE http
    /\ UNCHANGED <<token, given, range, again>>
    /\ UNCHANGED <<constructed, members, max_quality, op, arg, ret, otherVars>>

Reparse ==
    /\ stage = "serialized"
    /\ LET m == ParseMediaRange(http)
       IN  /\ exc' = m.exc
           /\ stage' = IF m.exc = "none" THEN "reparsed" ELSE "failed"
           /\ again' = IF m.exc = "none" THEN m.ret ELSE again
    /\ UNCHANGED <<token, given, range, explicit, http>>
    /\ UNCHANGED <<constructed, members, max_quality, op, arg, ret, otherVars>>

NextRange ==
    \/ ParseToken
    \/ BuildRange
    \/ Serialize
    \/ Reparse

SpecRange == InitRange /\ [][NextRange]_vars

\* ------------------------------------- other ways to change the list
\* the q values set on a member
MemberQualities == { PyStr(T_0_5), PyStr(T_1_0) }

\* accepts.extend(batch)
DoExtend ==
    /\ constructed
    /\ \E batch \in Batches :
         /\ Len(members) + Len(batch) <= MaxLen
         /\ LET r == HeaderAccept_extend(self, batch)
            IN  /\ op' = "extend"
                /\ arg' = batch
                /\ exc' = "none"
                /\ ret' = PyNone
                /\ members' = r.members
                /\ max_quality' = r.max_quality
    /\ UNCHANGED <<constructed, rangeVars, otherVars>>

\* accepts.insert(index, x)
DoInsert ==
    /\ constructed
    /\ Len(members) < MaxLen
    /\ \E index \in 0..Len(members), x \in MediaRanges :
         LET r == HeaderAccept_insert(self, index, x)
         IN  /\ op' = "insert"
             /\ arg' = [index |-> index, x |-> x]
             /\ exc' = "none"
             /\ ret' = PyNone
             /\ members' = r.members
             /\ max_quality' = r.max_quality
    /\ UNCHANGED <<constructed, rangeVars, otherVars>>

\* accepts[i].set_options('q', value), i counted from 1
DoItemSetOptions ==
    /\ constructed
    /\ \E i \in 1..Len(members), value \in MemberQualities :
         LET r == HeaderAccept_item_set_options(self, i, S_q, value)
         IN  /\ op' = "item.set_options"
             /\ arg' = [index |-> i, value |-> value]
             /\ exc' = r.exc
             /\ ret' = PyNone
             /\ members' = r.self.members
             /\ max_quality' = r.self.max_quality
    /\ UNCHANGED <<constructed, rangeVars, otherVars>>

NextMutate ==
    \/ Construct
    \/ DoAppend
    \/ DoExtend
    \/ DoInsert
    \/ DoItemSetOptions

SpecMutate == Init /\ [][NextMutate]_vars

\* ------------------------------------------------- parse_accept_value
MaxSegments == 2

\* the first segment of a value: the mimetype as written
MimetypeTexts == { S_text_html, <<" ">> \o S_text_html \o <<" ">>, <<>> }

\* the segments behind a ';'
SegmentTexts ==
    { Seg(S_q, T_0_8),
      <<" ">> \o S_q \o <<" ", "=", " ">> \o T_0_8 \o <<" ">>,
      Seg(S_level, S_1),
      Seg(S_version, Seg(S_1, S_1)),
      S_level,
      <<>> }

ParseInputs ==
    { PyStr(Join(<<m>> \o segs, ";")) :
        m \in MimetypeTexts,
        segs \in UNION { [1..n -> SegmentTexts] : n \in 0..MaxSegments } }
    \cup { PyNone }

\* parse_accept_value(v)
DoParse ==
    /\ op = "none"
    /\ \E v \in ParseInputs :
         LET r == parse_accept_value(v)
         IN  /\ op' = "parse_accept_value"
             /\ arg' = v
             /\ exc' = r.exc
             /\ ret' = r.ret
    /\ UNCHANGED <<constructed, members, max_quality, rangeVars, otherVars>>

NextParse == DoParse

SpecParse == InitRange /\ [][NextParse]_vars

\* ------------------------------------------------ split_accept_header
MaxPieces == 3

\* what stands between the commas of a header
Pieces ==
    { S_text_html,
      <<" ">> \o S_text_html,
      S_app_xml \o <<";", " ">> \o Seg(S_q, T_0_8),
      <<"\t">> \o S_text_plain \o <<" ">>,
      <<>> }

Headers == UNION { { Join(ps, ",") : ps \in [1..n -> Pieces] } : n \in 1..MaxPieces }

\* values = split_accept_header(h): the header is cleaned and split at once,
\* the generator then hands the values out one by one
CallSplit ==
    /\ ~started
    /\ \E h \in Headers :
          /\ header' = h
          /\ pending' = split_accept_header(h)
    /\ started' = TRUE
    /\ yielded' = <<>>
    /\ ended' = FALSE
    /\ UNCHANGED <<listVars, rangeVars, calls, orderVars, sharedVars>>

\* next(values): the next value, or StopIteration
NextValue ==
    /\ started
    /\ ~ended
    /\ IF pending = <<>>
       THEN /\ ended' = TRUE
            /\ UNCHANGED <<pending, yielded>>
       ELSE /\ yielded' = Append(yielded, Head(pending))
            /\ pending' = Tail(pending)
            /\ UNCHANGED ended
    /\ UNCHANGED <<header, started>>
    /\ UNCHANGED <<listVars, rangeVars, calls, orderVars, sharedVars>>

NextSplit ==
    \/ CallSplit
    \/ NextValue

SpecSplit == InitRange /\ [][NextSplit]_vars

\* ------------------------------------------------------- set_options
MaxCalls == 2

\* the constructor arguments of the ranges whose options are set
OptionArgs == CtorArgs \cup DirectArgs

\* the (key, value) arguments of set_options
OptionCalls ==
    { [key |-> S_q, value |-> v] :
        v \in { PyStr(T_0_8), PyStr(T_1_0), PyStr(T_abc), PyFloat(Unit),
                PyFloat(Tenths(8)), PyDec(Dec(Tenths(5), 0)), PyNone } }
    \cup { [key |-> S_level, value |-> PyStr(S_1)],
           [key |-> S_version, value |-> PyStr(T_1_0)] }

\* MediaRange(mimetype, **options)
BuildWithOptions ==
    /\ stage = "start"
    /\ \E a \in OptionArgs :
         LET m == MediaRange__init__(a.mimetype, a.options)
         IN  /\ exc' = m.exc
             /\ stage' = IF m.exc = "none" THEN "built" ELSE "failed"
             /\ given' = a.options
             /\ range' = IF m.exc = "none" THEN m.ret ELSE range
    /\ UNCHANGED <<token, explicit, http, again>>
    /\ UNCHANGED <<constructed, members, max_quality, op, arg, ret, otherVars>>

\* range.set_options(key, value)
DoSetOptions ==
    /\ stage = "built"
    /\ calls < MaxCalls
    /\ \E c \in OptionCalls :
         LET r == MediaRange_set_options(range, c.key, c.value)
         IN  /\ op' = "set_options"
             /\ arg' = c
             /\ exc' = r.exc
             /\ range' = r.self
             /\ calls' = calls + 1
    /\ UNCHANGED <<stage, token, given, explicit, http, again>>
    /\ UNCHANGED <<constructed, members, max_quality, ret>>
    /\ UNCHANGED <<orderVars, splitVars, sharedVars>>

NextOptions ==
    \/ BuildWithOptions
    \/ DoSetOptions
    \/ Serialize

SpecOptions == InitRange /\ [][NextOptions]_vars

\* --------------------------------------------- comparing and sorting
T_0_9 == <<"0", ".", "9">>

\* the left operands: the ranges above and one built with the float 0.8
CompareRanges ==
    MediaRanges
    \cup { MediaRange__init__(S_text_html, (S_q :> PyFloat(Tenths(8)))).ret }

Html08 == MediaRange__init__(S_text_html, Q(T_0_8)).ret

Xml10 == MediaRange__init__(S_app_xml, EmptyDict).ret

CompareOperands ==
    { AsOperand(m) : m \in CompareRanges }
    \cup { Operand({"mimetype", "quality"}, m, PyNone) : m \in {Html08, Xml10} }
    \cup { Operand({"quality"}, m, PyNone) : m \in {Html08, Xml10} }
    \cup { Plain(PyFloat(Unit)), Plain(PyNone), Plain(PyStr(S_text_html)) }

MaxSort == 4

WildText08 == MediaRange__init__(S_text_any, Q(T_0_8)).ret

Wild08 == MediaRange__init__(S_any, Q(T_0_8)).ret

Xml09 == MediaRange__init__(S_app_xml, Q(T_0_9)).ret

Html10 == MediaRange__init__(S_text_html, EmptyDict).ret

\* the items of the lists that are sorted
SortItems ==
    { AsOperand(m) : m \in {Html10, Xml09, WildText08, Wild08} }
    \cup { Plain(PyInt(1)), Plain(PyInt(2)) }

SortLists == UNION { [1..n -> SortItems] : n \in 3..MaxSort }

\* either two operands, also taken as a list of two, or a longer list
InitCompare ==
    /\ ListIdle
    /\ RangeIdle
    /\ calls = 0
    /\ SplitIdle
    /\ SharedIdle
    /\ \/ /\ lhs \in CompareRanges
          /\ rhs \in CompareOperands
          /\ items = <<AsOperand(lhs), rhs>>
       \/ /\ lhs = NoMediaRange
          /\ rhs = Plain(PyNone)
          /\ items \in SortLists
    /\ results = EmptyDict
    /\ reverse = FALSE
    /\ sorted = NoResult

\* lhs <name> rhs
ApplyOperator(name) ==
    /\ lhs # NoMediaRange
    /\ name \notin DOMAIN results
    /\ results' = results @@ (name :> Compare(name, lhs, rhs))
    /\ UNCHANGED <<lhs, rhs, items, reverse, sorted>>
    /\ UNCHANGED <<listVars, rangeVars, calls, splitVars, sharedVars>>

DoEq == ApplyOperator("==")

DoNe == ApplyOperator("!=")

DoLt == ApplyOperator("<")

DoLe == ApplyOperator("<=")

DoGt == ApplyOperator(">")

DoGe == ApplyOperator(">=")

\* sorted(items) or sorted(items, reverse=True)
DoSorted ==
    /\ sorted = NoResult
    /\ \E r \in BOOLEAN :
          /\ reverse' = r
          /\ sorted' = PySorted(items, r)
    /\ UNCHANGED <<lhs, rhs, results, items>>
    /\ UNCHANGED <<listVars, rangeVars, calls, splitVars, sharedVars>>

NextCompare ==
    \/ DoSorted
    \/ DoEq
    \/ DoNe
    \/ DoLt
    \/ DoLe
    \/ DoGt
    \/ DoGe

SpecCompare == InitCompare /\ [][NextCompare]_vars

\* ----------------------------------- one instance, two threads, no lock
Wild05 == MediaRange__init__(S_any, Q(T_0_5)).ret

\* the items of the shared instance and the items appended to it
SharedItems == { Wild05, Html08, Xml10 }

SharedBatches == UNION { [1..n -> SharedItems] : n \in 1..MaxLen }

\* accepts = HeaderAccept(batch), before the threads start
ShareAccepts ==
    /\ ~constructed
    /\ \E batch \in SharedBatches :
         LET r == HeaderAccept__init__(batch)
         IN  /\ op' = "__init__"
             /\ arg' = batch
             /\ exc' = r.exc
             /\ ret' = PyNone
             /\ constructed' = TRUE
             /\ members' = r.ret.members
             /\ max_quality' = r.ret.max_quality
    /\ UNCHANGED <<rangeVars, calls, orderVars, splitVars, sharedVars>>

\* accepts.append(x) is entered and x, a MediaRange, passes the check of its
\* attributes
AppendBegin ==
    /\ constructed
    /\ appending = "idle"
    /\ Len(members) < MaxLen
    /\ \E x \in SharedItems : item' = x
    /\ appending' = "checked"
    /\ UNCHANGED <<reading, pos, picked, overlapped>>
    /\ UNCHANGED <<listVars, rangeVars, calls, orderVars, splitVars>>

\* if self.max_quality < x.quality: self.max_quality = x.quality
AppendRaise ==
    /\ appending = "checked"
    /\ LET r == HeaderAccept_append_step(self, item, "raise")
       IN  /\ members' = r.members
           /\ max_quality' = r.max_quality
    /\ appending' = "raised"
    /\ overlapped' = (overlapped \/ reading = "iterating")
    /\ UNCHANGED <<item, reading, pos, picked>>
    /\ UNCHANGED <<constructed, op, arg, exc, ret>>
    /\ UNCHANGED <<rangeVars, calls, orderVars, splitVars>>

\* return super(HeaderAccept, self).append(x)
AppendAdd ==
    /\ appending = "raised"
    /\ LET r == HeaderAccept_append_step(self, item, "add")
       IN  /\ members' = r.members
           /\ max_quality' = r.max_quality
    /\ appending' = "idle"
    /\ item' = NoMediaRange
    /\ overlapped' = (overlapped \/ reading = "iterating")
    /\ UNCHANGED <<reading, pos, picked>>
    /\ UNCHANGED <<constructed, op, arg, exc, ret>>
    /\ UNCHANGED <<rangeVars, calls, orderVars, splitVars>>

\* accepts.get_max_quality_accept() is entered: the generator over self is
\* made and handed to HeaderAccept(...)
ReadBegin ==
    /\ constructed
    /\ reading \in {"idle", "done"}
    /\ reading' = "iterating"
    /\ pos' = 1
    /\ picked' = <<>>
    /\ overlapped' = (appending = "raised")
    /\ UNCHANGED <<appending, item>>
    /\ UNCHANGED <<listVars, rangeVars, calls, orderVars, splitVars>>

\* the generator looks at the next item:
\* item for item in self if item.quality == self.max_quality
ReadItem ==
    /\ reading = "iterating"
    /\ pos <= Len(members)
    /\ picked' = IF members[pos].quality = max_quality
                 THEN Append(picked, members[pos]) ELSE picked
    /\ pos' = pos + 1
    /\ UNCHANGED <<appending, item, reading, overlapped>>
    /\ UNCHANGED <<listVars, rangeVars, calls, orderVars, splitVars>>

\* the list has no further item: HeaderAccept.__init__ takes the maximum
\* over the items picked and the call returns, or raises
ReadEnd ==
    /\ reading = "iterating"
    /\ pos > Len(members)
    /\ LET r == HeaderAccept__init__(picked)
       IN  /\ op' = "get_max_quality_accept"
           /\ arg' = PyNone
           /\ exc' = r.exc
           /\ ret' = r.ret
    /\ reading' = "done"
    /\ UNCHANGED <<appending, item, pos, picked, overlapped>>
    /\ UNCHANGED <<constructed, members, max_quality>>
    /\ UNCHANGED <<rangeVars, calls, orderVars, splitVars>>

NextShared ==
    \/ ShareAccepts
    \/ AppendBegin
    \/ AppendRaise
    \/ AppendAdd
    \/ ReadBegin
    \/ ReadItem
    \/ ReadEnd

SpecShared == Init /\ [][NextShared]_vars

\* ------------------------------------------------------------ properties
Indices == 1..Len(members)

\* C1: once a HeaderAccept is built from a non-empty batch, and after every
\* successful append, max_quality is the maximum quality over its members:
\* some member has it and no member has more.
C1_MaxQualityIsMaximum ==
    constructed =>
        /\ \E i \in Indices : members[i].quality = max_quality
        /\ \A i \in Indices : ~DecLt(max_quality, members[i].quality)

\* an append has just raised the maximum
C1_AppendRaisedMaximum ==
    /\ op = "append"
    /\ exc = "none"
    /\ Len(members) >= 2
    /\ \A i \in 1..(Len(members) - 1) :
         DecLt(members[i].quality, members[Len(members)].quality)

WrittenQuality(q) == IF q.t = "str" THEN DecFromStr(q.s) ELSE Dec(q.d.val, 0)

\* C3: for a two-element value (mimetype, quality), `value in accepts` is
\* true iff some member has that mimetype and a quality numerically equal
\* to the given one, whether it is given as text, as a number or as a
\* Decimal.
C3_PairMembership ==
    (op = "__contains__" /\ arg.kind = "sequence" /\ Len(arg.items) = 2) =>
        /\ exc = "none"
        /\ ret = (\E i \in Indices :
                    /\ members[i].mimetype = arg.items[1].s
                    /\ members[i].quality = WrittenQuality(arg.items[2]))

\* C4: for every bare string s, of any length, `s in accepts` returns a
\* boolean that is true iff some member's mimetype is exactly s.
C4_BareStringMembership ==
    (op = "__contains__" /\ arg.kind = "scalar" /\ arg.x.t = "str") =>
        /\ exc = "none"
        /\ ret = (\E i \in Indices : members[i].mimetype = arg.x.s)

\* the value has no mimetype/quality/options and does not unpack into two
NotAPair(value) ==
    \/ value.kind = "sequence" /\ Len(value.items) # 2
    \/ value.kind = "scalar" /\ value.x.t = "str" /\ Len(value.x.s) # 2
    \/ value.kind = "scalar" /\ value.x.t # "str"

\* C5: the membership test never raises for a value that is not a full
\* value and does not unpack into exactly two elements; it returns the
\* result of the comparison with the members' mimetypes.
C5_NotAPairNeverRaises ==
    (op = "__contains__" /\ NotAPair(arg)) =>
        /\ exc = "none"
        /\ ret = (\E i \in Indices :
                    /\ arg.kind = "scalar"
                    /\ arg.x.t = "str"
                    /\ members[i].mimetype = arg.x.s)

HtmlTypes(strict) ==
    {S_text_html, S_app_xhtml, S_app_xhtml_xml}
    \cup (IF strict THEN {} ELSE {S_text_any, S_app_any, S_any})

\* C6: is_html_accepted(strict) is true iff some member has the quality
\* max_quality, no options and an HTML mimetype, or with strict false one
\* of the wildcards.
C6_HtmlAcceptedAtTopTier ==
    op = "is_html_accepted" =>
        /\ exc = "none"
        /\ ret = (\E i \in Indices :
                    /\ members[i].quality = max_quality
                    /\ DOMAIN members[i].options = {}
                    /\ members[i].mimetype \in HtmlTypes(arg))

\* text/html is a member below the top quality and HTML is not accepted
C6_HtmlBelowTopTier ==
    /\ op = "is_html_accepted"
    /\ ret = FALSE
    /\ \E i \in Indices :
         /\ members[i].mimetype = S_text_html
         /\ DOMAIN members[i].options = {}
         /\ DecLt(members[i].quality, max_quality)

\* the k-th smallest element of a set of indices
KthIndex(S, k) == CHOOSE i \in S : Cardinality({j \in S : j <= i}) = k

\* C7: get_max_quality_accept returns a collection holding exactly the
\* members whose quality is max_quality, in their relative order, and
\* leaves the receiver as it was.
C7_MaxQualityAcceptSelects ==
    [][op' = "get_max_quality_accept" =>
         LET top == {i \in Indices : members[i].quality = max_quality}
         IN  /\ exc' = "none"
             /\ Len(ret'.members) = Cardinality(top)
             /\ \A k \in 1..Cardinality(top) :
                  ret'.members[k] = members[KthIndex(top, k)]
             /\ members' = members
             /\ max_quality' = max_quality]_vars

\* a selection that kept some members and dropped others
C7_SomeMembersDropped ==
    /\ op = "get_max_quality_accept"
    /\ exc = "none"
    /\ Len(ret.members) >= 1
    /\ Len(ret.members) < Len(members)

\* the place of member i in the order of descending quality, members of
\* equal quality in their order in the list
PlaceDescending(i) ==
    1 + Cardinality({j \in Indices : DecLt(members[i].quality, members[j].quality)})
      + Cardinality({j \in 1..(i - 1) : members[j].quality = members[i].quality})

\* C8: HeaderAccept.to_http joins the members' to_http() with ',', in order
\* of descending quality, members of equal quality in their original order.
C8_ToHttpDescendingStable ==
    op = "to_http" =>
        /\ exc = "none"
        /\ ret = Join([k \in Indices |->
                        MediaRange_to_http(
                            members[CHOOSE i \in Indices : PlaceDescending(i) = k],
                            FALSE).ret], ",")

\* two different members of equal quality were serialized
C8_TieSerialized ==
    /\ op = "to_http"
    /\ exc = "none"
    /\ \E i, j \in Indices :
         /\ i < j
         /\ members[i].quality = members[j].quality
         /\ members[i] # members[j]

\* the text q=<digits>.<one digit>, for the tenth nearest to quality d
IsOneDigitQ(part, d) ==
    LET n == Len(part)
        number == SubSeq(part, 3, n)
    IN  /\ n >= 5
        /\ part[1] = "q"
        /\ part[2] = "="
        /\ part[n - 1] = "."
        /\ \A i \in (3..n) \ {n - 1} : IsDigit(part[i])
        /\ LET v == DecFromStr(number).val
           IN  2 * (IF v > d.val THEN v - d.val ELSE d.val - v) <= Unit \div 10

KeyOf(part) == Split(part, "=")[1]

SameRange(a, b) ==
    /\ a.mimetype = b.mimetype
    /\ a.quality = b.quality
    /\ a.options = b.options

\* C10 as written: a header parsed, serialized with to_http and parsed
\* again gives the mimetype, quality and options of the first parse, for
\* every quality the first parse can hold.
C10_RoundTripAnyQuality ==
    (stage = "reparsed" /\ token # <<>>) => SameRange(range, again)

\* a quality between 0 and 1 with at most one digit after the point
IsTenth(d) == d.err = 0 /\ d.val % (Unit \div 10) = 0 /\ d.val <= Unit

\* C10, amended: the round trip gives back the mimetype, quality and
\* options of the first parse when the quality is between 0 and 1 and has
\* at most one digit after the decimal point.
C10_RoundTripTenths ==
    (stage = "reparsed" /\ token # <<>> /\ IsTenth(range.quality)) =>
        SameRange(range, again)

\* q=0.8 and an option went through the round trip
C10_TenthWentRound ==
    /\ stage = "reparsed"
    /\ token # <<>>
    /\ S_q \in DOMAIN given
    /\ range.quality = Dec(Tenths(8), 0)
    /\ DOMAIN range.options # {}

Applied(name) == name \in DOMAIN results

\* lhs and rhs have the same mimetype, quality and options
AllMatch ==
    /\ {"mimetype", "quality", "options"} \subseteq rhs.attrs
    /\ lhs.mimetype = rhs.mr.mimetype
    /\ lhs.quality = rhs.mr.quality
    /\ lhs.options = rhs.mr.options

\* C11: a == b is true iff mimetype, quality and options all match, and is
\* false without an error when b lacks one of them; a != b is the negation
\* of a == b for every pair of operands.
C11_EqualityAndItsNegation ==
    /\ Applied("==") => results["=="] = Ok(AllMatch)
    /\ Applied("!=") => results["!="] = Ok(~AllMatch)
    /\ (Applied("==") /\ Applied("!=")) =>
          results["!="].ret = ~results["=="].ret

\* both operators applied to two ranges that differ in their options only
C11_OptionsDifferOnly ==
    /\ Applied("==")
    /\ Applied("!=")
    /\ {"mimetype", "quality", "options"} \subseteq rhs.attrs
    /\ lhs.mimetype = rhs.mr.mimetype
    /\ lhs.quality = rhs.mr.quality
    /\ lhs.options # rhs.mr.options
    /\ results["!="].ret = TRUE

Ordering == {"<", "<=", ">", ">="}

AllApplied(names) == names \subseteq DOMAIN results

\* C12: between two values with a quality the four ordering operators depend
\* on quality only: exactly one of a < b, a > b, (a <= b and a >= b) holds,
\* and with equal qualities a <= b and a >= b hold and a < b, a > b do not,
\* whatever the mimetypes.
C12_OrderingByQualityOnly ==
    (lhs # NoMediaRange /\ "quality" \in rhs.attrs /\ AllApplied(Ordering)) =>
        LET lt == results["<"].ret
            le == results["<="].ret
            gt == results[">"].ret
            ge == results[">="].ret
        IN  /\ \A name \in Ordering : results[name].exc = "none"
            /\ lt = DecLt(lhs.quality, rhs.mr.quality)
            /\ gt = DecLt(rhs.mr.quality, lhs.quality)
            /\ Cardinality({k \in 1..3 : <<lt, gt, le /\ ge>>[k]}) = 1
            /\ lhs.quality = rhs.mr.quality =>
                  le /\ ge /\ ~lt /\ ~gt

\* all four applied to two ranges of equal quality and different mimetypes
C12_EqualQualityOtherMimetype ==
    /\ lhs # NoMediaRange
    /\ IsMediaRange(rhs)
    /\ AllApplied(Ordering)
    /\ lhs.quality = rhs.mr.quality
    /\ lhs.mimetype # rhs.mr.mimetype
    /\ results["<="].ret = TRUE
    /\ results[">="].ret = TRUE

\* the list holds a MediaRange and a value without quality
Mixed(list) ==
    /\ \E i \in 1..Len(list) : IsMediaRange(list[i])
    /\ \E i \in 1..Len(list) : "quality" \notin list[i].attrs

\* C13: each of <, <=, >, >= between a MediaRange and a value without
\* quality raises TypeError, and so does sorting a list that mixes MediaRange
\* values with values without quality.
C13_OrderingNeedsQuality ==
    /\ (lhs # NoMediaRange /\ "quality" \notin rhs.attrs) =>
          \A name \in Ordering :
              Applied(name) => results[name] = Raise("TypeError")
    /\ (sorted # NoResult /\ Mixed(items)) => sorted = Raise("TypeError")

\* a MediaRange compared with a number by all four operators and by sorted()
C13_NumberOperandRaised ==
    /\ lhs # NoMediaRange
    /\ rhs = Plain(PyFloat(Unit))
    /\ AllApplied(Ordering)
    /\ \A name \in Ordering : results[name].exc = "TypeError"
    /\ sorted.exc = "TypeError"

SortIndices == 1..Len(items)

QualityAt(i) == items[i].mr.quality

\* the place of item i after the sort: behind the items that go before it by
\* quality and behind the earlier items of the same quality
PlaceSorted(i) ==
    1 + Cardinality({j \in SortIndices :
                        IF reverse THEN DecLt(QualityAt(i), QualityAt(j))
                        ELSE DecLt(QualityAt(j), QualityAt(i))})
      + Cardinality({j \in 1..(i - 1) : QualityAt(j) = QualityAt(i)})

ExampleList == <<AsOperand(Html10), AsOperand(WildText08),
                 AsOperand(Wild08), AsOperand(Xml09)>>

ExampleAscending == <<AsOperand(WildText08), AsOperand(Wild08),
                      AsOperand(Xml09), AsOperand(Html10)>>

ExampleDescending == <<AsOperand(Html10), AsOperand(Xml09),
                       AsOperand(WildText08), AsOperand(Wild08)>>

\* C14: sorting MediaRange values gives non-decreasing quality, or
\* non-increasing quality with reverse, and in both directions values of
\* equal quality keep their input order; [html 1.0, text/* 0.8, */* 0.8,
\* xml 0.9] gives [text/*, */*, xml, html] and [html, xml, text/*, */*].
C14_SortedStableBothWays ==
    (sorted # NoResult /\ \A i \in SortIndices : IsMediaRange(items[i])) =>
        /\ sorted.exc = "none"
        /\ Len(sorted.ret) = Len(items)
        /\ \A i \in SortIndices : sorted.ret[PlaceSorted(i)] = items[i]
        /\ \A k \in 1..(Len(items) - 1) :
              IF reverse
              THEN ~DecLt(sorted.ret[k].mr.quality, sorted.ret[k + 1].mr.quality)
              ELSE ~DecLt(sorted.ret[k + 1].mr.quality, sorted.ret[k].mr.quality)
        /\ items = ExampleList =>
              sorted.ret = IF reverse THEN ExampleDescending
                           ELSE ExampleAscending

\* the example list sorted with reverse: the two 0.8 values stay in order
C14_ExampleSortedDescending ==
    /\ items = ExampleList
    /\ reverse
    /\ sorted = Ok(ExampleDescending)

\* C15: append of a value without mimetype or without quality raises
\* TypeError and leaves the members, their order and max_quality as they were.
C15_RejectedAppendChangesNothing ==
    [][(/\ op' = "append"
        /\ ("mimetype" \notin arg'.attrs \/ "quality" \notin arg'.attrs))
       => (/\ exc' = "TypeError"
           /\ members' = members
           /\ max_quality' = max_quality)]_vars

\* an object with a mimetype and no quality was refused
C15_AppendRefused ==
    /\ op = "append"
    /\ arg.attrs = {"mimetype"}
    /\ exc = "TypeError"
    /\ members # <<>>

\* C16: HeaderAccept built from an empty batch raises at construction, and
\* no HeaderAccept without members comes out of the constructor.
C16_EmptyBatchRaises ==
    /\ (op = "__init__" /\ arg = <<>>) => (exc = "ValueError" /\ ~constructed)
    /\ constructed => (members # <<>> /\ max_quality # NoDec)

\* the constructor was given the empty batch and raised
C16_EmptyBatchGiven ==
    /\ op = "__init__"
    /\ arg = <<>>
    /\ exc = "ValueError"
    /\ ~constructed

GivenQ == S_q \in DOMAIN given

\* C17: without q the quality is exactly 1.0; with a q that reads as a
\* decimal the quality is that decimal exactly (q='0.8' gives 0.8); with a q
\* that does not read as a decimal the constructor raises and builds nothing.
C17_QualityFromQ ==
    /\ (stage = "built" /\ ~GivenQ) => range.quality = Dec(Unit, 0)
    /\ (stage = "built" /\ GivenQ /\ given[S_q].t = "str") =>
          /\ IsDecimalText(given[S_q].s)
          /\ range.quality = DecFromStr(given[S_q].s)
          /\ range.quality.err = 0
          /\ given[S_q].s = T_0_8 => range.quality.val * 10 = 8 * Unit
    /\ (GivenQ /\ given[S_q].t = "str" /\ ~IsDecimalText(given[S_q].s)) =>
          /\ stage = "failed"
          /\ exc = "InvalidOperation"
          /\ range = NoMediaRange

\* the constructor was given q='abc' and raised
C17_BadQRefused ==
    /\ stage = "failed"
    /\ GivenQ
    /\ given[S_q] = PyStr(T_abc)
    /\ exc = "InvalidOperation"
    /\ range = NoMediaRange

RendersQ(m) ==
    LET parts == Split(MediaRange_to_http(m, FALSE).ret, ";")
    IN  /\ Len(parts) >= 2
        /\ Len(parts[2]) >= 2
        /\ SubSeq(parts[2], 1, 2) = <<"q", "=">>

\* C19: after every set_options('q', v) with a v that is a decimal, quality
\* is v exactly and the raw option map holds q with that value, so that
\* to_http renders q; mimetype and the other options are unchanged.
C19_SetQUpdatesBothViews ==
    [][(/\ op' = "set_options"
        /\ calls' = calls + 1
        /\ arg'.key = S_q
        /\ DecimalOf(arg'.value).exc = "none")
       => (/\ exc' = "none"
           /\ range'.quality = DecimalOf(arg'.value).ret
           /\ S_q \in DOMAIN range'.raw_options
           /\ DecimalOf(range'.raw_options[S_q]) = Ok(range'.quality)
           /\ RendersQ(range')
           /\ range'.mimetype = range.mimetype
           /\ range'.options = range.options)]_vars

\* the text between the commas of the header, as written
Written == Split(header, ",")

\* C20 as stated: the values are the pieces between the commas, in order and
\* with duplicates, each with only the whitespace around it removed.
C20_PiecesStripped ==
    ended => yielded = [i \in 1..Len(Written) |-> Strip(Written[i])]

\* C20: the values are the pieces between the commas, in their order and
\* with duplicates, each with all its space characters removed, those
\* inside the piece too, and nothing else removed.
C20_PiecesWithoutSpaces ==
    /\ started =>
          yielded \o pending = [i \in 1..Len(Written) |-> Remove(Written[i], " ")]
    /\ ended => (pending = <<>> /\ Len(yielded) = Len(Written))

\* a header of three pieces went through: one twice, one with a space inside
C20_InnerSpaceAndDuplicate ==
    /\ ended
    /\ Len(yielded) = 3
    /\ yielded[1] = yielded[3]
    /\ yielded[2] = S_app_xml \o <<";">> \o Seg(S_q, T_0_8)
    /\ Written[2] # yielded[2]

\* the number of commas in the header
Commas == Cardinality({i \in 1..Len(header) : header[i] = ","})

\* C21: split_accept_header yields one value more than the header has
\* commas and then ends; the empty header yields one value, the empty
\* string, never none.
C21_OneValueMoreThanCommas ==
    /\ started => Len(yielded) + Len(pending) = Commas + 1
    /\ ended => Len(yielded) = Commas + 1
    /\ (ended /\ header = <<>>) => yielded = << <<>> >>

\* the empty header went through: one empty value, then the end
C21_EmptyHeaderYieldedOnce ==
    /\ started
    /\ ended
    /\ header = <<>>
    /\ yielded = << <<>> >>

Parsed == op = "parse_accept_value"

\* the segments of the value given to parse_accept_value, as written
Segments == Split(arg.s, ";")

HasEquals(seg) == \E i \in 1..Len(seg) : seg[i] = "="

FirstEquals(seg) ==
    CHOOSE i \in 1..Len(seg) : seg[i] = "=" /\ \A j \in 1..(i - 1) : seg[j] # "="

\* a segment cut at its first '=', both sides trimmed
KeyValue(seg) ==
    << Strip(SubSeq(seg, 1, FirstEquals(seg) - 1)),
       Strip(SubSeq(seg, FirstEquals(seg) + 1, Len(seg))) >>

\* C22: the first segment, trimmed, is the mimetype; every later segment is
\* cut at its first '=' into a trimmed key and a trimmed value, a value with
\* an '=' of its own kept whole; spaces around ';' and '=' change nothing.
C22_SplitOnFirstEquals ==
    (/\ Parsed
     /\ arg.t = "str"
     /\ \A i \in 2..Len(Segments) : HasEquals(Segments[i])) =>
        /\ exc = "none"
        /\ ret.mimetype = Strip(Segments[1])
        /\ ret.options =
              DictFromPairs([i \in 1..(Len(Segments) - 1) |->
                                KeyValue(Segments[i + 1])])

\* C23: parse_accept_value raises for None and for a value with a segment
\* behind a ';' that has no '=' (a stray ';foo', a trailing ';'); no such
\* segment is dropped in silence; the empty string gives the mimetype ''
\* and no options.
C23_BadSegmentsRefused ==
    Parsed =>
        /\ arg = PyNone => exc = "TypeError"
        /\ (/\ arg.t = "str"
            /\ \E i \in 2..Len(Segments) : ~HasEquals(Segments[i])) =>
              exc = "ValueError"
        /\ (arg.t = "str" /\ exc = "none") =>
              \A i \in 2..Len(Segments) :
                  /\ HasEquals(Segments[i])
                  /\ KeyValue(Segments[i])[1] \in DOMAIN ret.options
        /\ arg = PyStr(<<>>) =>
              (exc = "none" /\ ret = [mimetype |-> <<>>, options |-> EmptyDict])

\* a value that ends with ';' was refused
C23_TrailingSemicolonRefused ==
    /\ Parsed
    /\ arg = PyStr(S_text_html \o <<";">>)
    /\ exc = "ValueError"
    /\ ret = PyNone

\* C24: the membership test, to_http, get_max_quality_accept and
\* is_html_accepted leave the receiver as it was: the same members in the
\* same order, never sorted in place, and the same max_quality.
C24_QueriesLeaveReceiver ==
    [][op' \in QueryNames =>
          (/\ members' = members
           /\ max_quality' = max_quality
           /\ constructed' = constructed)]_vars

\* to_http has run on members given in ascending order, and they still are
C24_StillInGivenOrder ==
    /\ op = "to_http"
    /\ exc = "none"
    /\ Len(members) = 2
    /\ DecLt(members[1].quality, members[2].quality)

\* the greatest quality among the members
GreatestQuality ==
    CHOOSE q \in {members[i].quality : i \in Indices} :
        \A i \in Indices : ~DecLt(q, members[i].quality)

\* C25: max_quality is the maximum quality over the current members in
\* every state reached by construction, append, extend, insert and
\* set_options('q', v) on a member.
C25_MaxQualityAfterAnyChange ==
    (constructed /\ members # <<>>) => max_quality = GreatestQuality

\* C26: on a HeaderAccept reached by construction and appends,
\* get_max_quality_accept returns a collection that is not empty and has the
\* max_quality of the receiver, and get_max_quality_accept on that
\* collection returns the same members in the same order.
C26_MaxQualityAcceptIdempotent ==
    /\ op = "get_max_quality_accept" =>
          /\ exc = "none"
          /\ ret.members # <<>>
          /\ ret.max_quality = max_quality
    /\ op = "get_max_quality_accept twice" =>
          /\ exc = "none"
          /\ ret.members = arg.members
          /\ ret.max_quality = arg.max_quality

\* the first call dropped a member, the second one dropped nothing more
C26_SecondCallKeptAll ==
    /\ op = "get_max_quality_accept twice"
    /\ exc = "none"
    /\ Len(arg.members) < Len(members)
    /\ ret.members = arg.members

\* C27: append raises max_quality before it adds the item. On an instance
\* shared without a lock max_quality is therefore never below a member, and
\* while an append is between its two statements it may be above every
\* member; a reader that ran with no append moving under it always gets a
\* collection that is not empty, and between appends max_quality is the
\* quality of some member.
C27_MaxQualityRaisedBeforeAdd ==
    constructed =>
        /\ \A i \in Indices : ~DecLt(max_quality, members[i].quality)
        /\ appending # "raised" =>
              \E i \in Indices : members[i].quality = max_quality
        /\ (reading = "done" /\ ~overlapped) =>
              (exc = "none" /\ ret.members # <<>>)

\* a reader went through the list between the two statements of an append:
\* max_quality was above every member and no member was selected
C27_ReaderSawNoTopMember ==
    /\ reading = "done"
    /\ overlapped
    /\ appending = "raised"
    /\ \A i \in Indices : DecLt(members[i].quality, max_quality)
    /\ picked = <<>>
    /\ exc = "ValueError"
====
